---- MODULE Spec2Model ----
(***************************************************************************)
(* A model of NDPI_<3_TIF.py: the script that reads the index files        *)
(* (.ndpis) of a folder, finds the regions of interest of one channel by   *)
(* blurring, binarising and contour extraction, and crops every channel    *)
(* of the slide set with those regions.                                    *)
(*                                                                         *)
(* Strings are sequences of characters, so that the script's string        *)
(* operations (endswith, split, rstrip, in, basename, splitext, str, int)  *)
(* are computed character by character. A printable ASCII character, a     *)
(* tab, a newline, a carriage return and a form feed are written as        *)
(* themselves ("a", "\t", "\n", "\r", "\f"); every other character is      *)
(* written by its code point, "U+" and four to six upper-case hexadecimal  *)
(* digits ("U+000B" the vertical tab, "U+0661" the Arabic-Indic digit      *)
(* one). The content of a file is the sequence of its bytes: an ASCII byte  *)
(* is written as the character it encodes, a byte of 0x80 and above "0x"   *)
(* and two hexadecimal digits ("0xC3", "0xFF"). Text files are decoded as  *)
(* UTF-8.                                                                  *)
(*                                                                         *)
(* A raster is described by its width, its height and the vertical         *)
(* stripes it holds: every row of the raster is the same row of samples.   *)
(* On such a raster the vertical passes of the blur leave every sample     *)
(* unchanged (a box filter of a constant line with replicated edges), so   *)
(* the two-dimensional pipeline is computed exactly by its horizontal      *)
(* passes on one row, and every connected component is a run of columns    *)
(* that spans the full height.                                             *)
(***************************************************************************)
EXTENDS Integers, Sequences, FiniteSets, TLC

(***************************************************************************)
(* Strings                                                                 *)
(***************************************************************************)
NDPI == <<".", "n", "d", "p", "i">>
NDPI_NL == <<".", "n", "d", "p", "i", "\n">>
TIF == <<".", "t", "i", "f">>
ROI_TAG == <<"_", "r", "o", "i", "_", "0">>
OUT_DIR == <<"t", "i", "f", "_", "f", "i", "l", "e", "s">>

\* str.endswith(suffix)
EndsWith(s, suf) ==
    /\ Len(s) >= Len(suf)
    /\ SubSeq(s, Len(s) - Len(suf) + 1, Len(s)) = suf

\* sub in s
Contains(sub, s) ==
    \E k \in 0..(Len(s) - Len(sub)) : SubSeq(s, k + 1, k + Len(sub)) = sub

\* The positions of character c in s, and the first and last of them (0: none).
Positions(s, c) == {k \in 1..Len(s) : s[k] = c}
FirstPos(s, c) ==
    IF Positions(s, c) = {} THEN 0
    ELSE CHOOSE k \in Positions(s, c) : \A j \in Positions(s, c) : k <= j
LastPos(s, c) ==
    IF Positions(s, c) = {} THEN 0
    ELSE CHOOSE k \in Positions(s, c) : \A j \in Positions(s, c) : k >= j

\* str.split(sep): the pieces of s between the occurrences of sep
RECURSIVE Split(_, _)
Split(s, sep) ==
    IF FirstPos(s, sep) = 0 THEN <<s>>
    ELSE <<SubSeq(s, 1, FirstPos(s, sep) - 1)>>
            \o Split(SubSeq(s, FirstPos(s, sep) + 1, Len(s)), sep)

\* str.rstrip('\n'): every trailing newline is removed
RECURSIVE RStripNL(_)
RStripNL(s) ==
    IF Len(s) > 0 /\ s[Len(s)] = "\n" THEN RStripNL(SubSeq(s, 1, Len(s) - 1))
    ELSE s

\* open(ndpis_file, 'r') reads text with universal newlines: "\r\n" and a
\* lone "\r" reach the program as "\n"
KeptPositions(content) ==
    SelectSeq([k \in 1..Len(content) |-> k],
              LAMBDA k : ~(k > 1 /\ content[k] = "\n" /\ content[k - 1] = "\r"))
Translate(content, kept) ==
    [i \in 1..Len(kept) |->
        IF content[kept[i]] = "\r" THEN "\n" ELSE content[kept[i]]]
UniversalNewlines(content) == Translate(content, KeptPositions(content))

\* The lines of a text, each with its newline, the last one without when the
\* text does not end with a newline
RECURSIVE TextLines(_)
TextLines(text) ==
    IF text = <<>> THEN <<>>
    ELSE IF FirstPos(text, "\n") = 0 THEN <<text>>
    ELSE <<SubSeq(text, 1, FirstPos(text, "\n"))>>
            \o TextLines(SubSeq(text, FirstPos(text, "\n") + 1, Len(text)))

\* A byte of 0x80 and above is written "0x" and two hexadecimal digits, a
\* character of U+0080 and above "U+" and four digits at least
HexDigit(d) ==
    <<"0", "1", "2", "3", "4", "5", "6", "7",
      "8", "9", "A", "B", "C", "D", "E", "F">>[d + 1]
RECURSIVE Hex(_, _)
Hex(n, width) ==
    IF width = 0 /\ n = 0 THEN ""
    ELSE Hex(n \div 16, IF width = 0 THEN 0 ELSE width - 1) \o HexDigit(n % 16)
ByteToken(n) == "0x" \o Hex(n, 2)
CharToken(cp) == "U+" \o Hex(cp, 4)
HighBytes == [n \in 128..255 |-> ByteToken(n)]

\* The value of a byte as the UTF-8 decoder tells bytes apart: every ASCII
\* byte is a character of its own and counts as 0
ByteValue(b) ==
    IF \E n \in 128..255 : HighBytes[n] = b
    THEN CHOOSE n \in 128..255 : HighBytes[n] = b
    ELSE 0
ByteValues(HighValue, content) ==
    [k \in 1..Len(content) |->
        IF content[k] \in DOMAIN HighValue THEN HighValue[content[k]] ELSE 0]
HighValues == [b \in {HighBytes[n] : n \in 128..255} |-> ByteValue(b)]
Values(content) == ByteValues(HighValues, content)

\* UTF-8, the encoding open(ndpis_file, 'r') decodes with: the length of the
\* sequence a byte leads (0: a continuation byte or a byte that leads
\* nothing), and the second bytes a lead byte takes
SeqLen(v) ==
    IF v < 128 THEN 1
    ELSE IF v \in 194..223 THEN 2
    ELSE IF v \in 224..239 THEN 3
    ELSE IF v \in 240..244 THEN 4
    ELSE 0
IsCont(v) == v \in 128..191
SecondOk(lead, v) ==
    IF lead = 224 THEN v \in 160..191
    ELSE IF lead = 237 THEN v \in 128..159
    ELSE IF lead = 240 THEN v \in 144..191
    ELSE IF lead = 244 THEN v \in 128..143
    ELSE IsCont(v)
Conts(v, a, b) == \A i \in a..b : IsCont(v[i])

\* The byte at k (the end of the file at Len(v) + 1) breaks off a sequence
\* that waits for a continuation byte
Pending(v, k) ==
    \E j \in 1..3 :
        k - j >= 1 /\ SeqLen(v[k - j]) > j /\ Conts(v, k - j + 1, k - 1)
\* The second bytes the decoder takes after a lead byte: 0xED with 0xA0 to
\* 0xBF, the start of a surrogate, is kept until the third byte or the end
\* of the file is decoded, and fails there
Held(lead, v) == SecondOk(lead, v) \/ (lead = 237 /\ v \in 160..191)
\* The continuation byte at k continues a sequence
Continues(v, k) ==
    \E j \in 1..3 :
        /\ k - j >= 1 /\ SeqLen(v[k - j]) >= j + 1
        /\ Conts(v, k - j + 1, k - 1)
        /\ IF j = 1 THEN Held(v[k - j], v[k])
           ELSE SecondOk(v[k - j], v[k - j + 1])
\* The decoder fails at k
ErrorAt(v, k) ==
    IF k = Len(v) + 1 \/ ~IsCont(v[k])
    THEN Pending(v, k) \/ (k <= Len(v) /\ SeqLen(v[k]) = 0)
    ELSE ~Continues(v, k)
FirstError(v) ==
    IF \A k \in 1..(Len(v) + 1) : ~ErrorAt(v, k) THEN 0
    ELSE CHOOSE k \in 1..(Len(v) + 1) :
            ErrorAt(v, k) /\ \A j \in 1..(k - 1) : ~ErrorAt(v, j)
\* Where the decoder fails on the bytes of a file: 0 when they are text,
\* Len(content) + 1 when the file ends inside a sequence
DetectPos(content) == FirstError(Values(content))

\* The character the sequence at s encodes
CodePoint(v, s) ==
    IF SeqLen(v[s]) = 2 THEN (v[s] - 192) * 64 + (v[s + 1] - 128)
    ELSE IF SeqLen(v[s]) = 3
    THEN (v[s] - 224) * 4096 + (v[s + 1] - 128) * 64 + (v[s + 2] - 128)
    ELSE (v[s] - 240) * 262144 + (v[s + 1] - 128) * 4096
            + (v[s + 2] - 128) * 64 + (v[s + 3] - 128)
DecodeChar(v, content, s) ==
    IF v[s] < 128 THEN content[s] ELSE CharToken(CodePoint(v, s))
\* The sequences that are complete in the first n bytes
Starts(v, n) ==
    SelectSeq([k \in 1..n |-> k],
              LAMBDA s : SeqLen(v[s]) >= 1 /\ s + SeqLen(v[s]) - 1 <= n)
DecodeStarts(v, content, starts) ==
    [i \in 1..Len(starts) |-> DecodeChar(v, content, starts[i])]
\* The text of the first n bytes of a file
Decoded(content, n) ==
    DecodeStarts(Values(content), content, Starts(Values(content), n))

\* Iterating the text file: the lines of the content, decoded, after the
\* newline translation
FileLines(content) ==
    TextLines(UniversalNewlines(Decoded(content, Len(content))))

\* The file is decoded a buffer of ReadBuffer bytes at a time, as the loop
\* asks for lines. A byte that cannot be decoded raises when its buffer is
\* decoded, a sequence the file ends in when the end of the file is decoded:
\* the loop has run by then on the lines that end in the buffers before. A
\* "\r" that ends what is decoded waits for the next buffer.
BadByte == ByteToken(255)
ReadBuffer == 8192
DecodedBefore(content, d) ==
    Decoded(content, IF d > Len(content) THEN Len(content)
                     ELSE ((d - 1) \div ReadBuffer) * ReadBuffer)
WithoutPendingCR(text) ==
    IF text # <<>> /\ text[Len(text)] = "\r" THEN SubSeq(text, 1, Len(text) - 1)
    ELSE text
CompleteLines(lines) == SelectSeq(lines, LAMBDA l : l[Len(l)] = "\n")
LinesBefore(content, d) ==
    CompleteLines(TextLines(UniversalNewlines(
        WithoutPendingCR(DecodedBefore(content, d)))))
LinesRead(content) ==
    IF DetectPos(content) = 0 THEN FileLines(content)
    ELSE LinesBefore(content, DetectPos(content))

\* os.path.basename: what follows the last "/"
Basename(p) == SubSeq(p, LastPos(p, "/") + 1, Len(p))

\* os.path.splitext(p)[0]: p without its extension; the extension starts at
\* the last "." after the last "/", unless only dots precede it in the name
SplitextRoot(p) ==
    LET sep == LastPos(p, "/")
        dot == LastPos(p, ".")
    IN  IF dot > sep /\ (\E k \in (sep + 1)..(dot - 1) : p[k] # ".")
        THEN SubSeq(p, 1, dot - 1)
        ELSE p

\* str(i) for i >= 0
Digit(d) == <<"0", "1", "2", "3", "4", "5", "6", "7", "8", "9">>[d + 1]
RECURSIVE Str(_)
Str(i) == IF i < 10 THEN <<Digit(i)>> ELSE Str(i \div 10) \o <<Digit(i % 10)>>

\* os.path.join(a, b) for a non-empty a that does not end with "/"
PathJoin(a, b) ==
    IF Len(b) > 0 /\ b[1] = "/" THEN b ELSE a \o <<"/">> \o b

(***************************************************************************)
(* The blur of get_binary: ImageFilter.GaussianBlur(25) is, along each     *)
(* direction, three passes of a box filter whose radius has the integer    *)
(* part l = floor((sqrt(12 s + 1) - 1) / 2) and the fractional part        *)
(* (2l + 1)(l(l + 1) - 3 s) / (6 (s - (l + 1)^2)), where s = 25^2 / 3:     *)
(* a radius of 24.49. The filter works in 8.24 fixed point: the 2l + 1     *)
(* samples around x weigh BoxWeight = 2^24 / (2 * 24.49 + 1) each, the two *)
(* samples at distance l + 1 weigh FarWeight each, a position beyond an    *)
(* end of the line has the sample of that end, and the result is rounded   *)
(* to the nearest integer.                                                 *)
(***************************************************************************)
BlurRadius == 25
BlurPasses == 3
Isqrt(n) == CHOOSE k \in 0..n : k * k <= n /\ n < (k + 1) * (k + 1)
BoxRadius == (Isqrt((12 * BlurRadius * BlurRadius) \div BlurPasses + 1) - 1) \div 2
BoxWeight == 335678
FarWeight == (16777216 - (2 * BoxRadius + 1) * BoxWeight) \div 2

Clamp(i, n) == IF i < 1 THEN 1 ELSE IF i > n THEN n ELSE i

\* The sums of the first k samples of a line, for k = 1..Len(line): the
\* running sums of the two halves, the second raised by the sum of the first
JoinSums(left, right) ==
    left \o [k \in 1..Len(right) |-> right[k] + left[Len(left)]]
RECURSIVE SumsOf(_, _, _)
SumsOf(line, lo, hi) ==
    IF lo = hi THEN <<line[lo]>>
    ELSE JoinSums(SumsOf(line, lo, (lo + hi) \div 2),
                  SumsOf(line, (lo + hi) \div 2 + 1, hi))
PrefixSums(line) == SumsOf(line, 1, Len(line))

\* The accumulator of the filter at a window lo..hi that holds a sample of
\* the line: the samples of the window, the first sample once for every
\* position before the line and the last once for every position after it
WindowSum(line, sums, lo, hi) ==
    LET n == Len(line)
        first == IF lo < 1 THEN 1 ELSE lo
        last == IF hi > n THEN n ELSE hi
    IN  sums[last] - (IF first > 1 THEN sums[first - 1] ELSE 0)
          + (first - lo) * line[1] + (hi - last) * line[n]

\* (acc * BoxWeight + far * FarWeight + 2^23) >> 24, computed in two halves
\* of 12 bits so that no intermediate value exceeds 31 bits
FixedRound(acc, far) ==
    LET hi == acc * (BoxWeight \div 4096)
        lo == acc * (BoxWeight % 4096) + far * FarWeight + 8388608
    IN  (hi + lo \div 4096) \div 4096

BoxBlurFrom(line, sums) ==
    [x \in 1..Len(line) |->
        FixedRound(WindowSum(line, sums, x - BoxRadius, x + BoxRadius),
                   line[Clamp(x - BoxRadius - 1, Len(line))]
                     + line[Clamp(x + BoxRadius + 1, Len(line))])]
BoxBlurLine(line) == BoxBlurFrom(line, PrefixSums(line))

RECURSIVE BoxBlurPasses(_, _)
BoxBlurPasses(line, n) ==
    IF n = 0 THEN line ELSE BoxBlurPasses(BoxBlurLine(line), n - 1)

GaussianBlur(line) == BoxBlurPasses(line, BlurPasses)


(***************************************************************************)
(* Rasters and the segmentation pipeline                                   *)
(***************************************************************************)
\* The row of samples of a raster: the sample of the stripe that covers the
\* column, 0 where no stripe does. Stripe columns are 0-based, as pixels are.
RasterRow(r) ==
    [c \in 1..r.width |->
        IF \E k \in 1..Len(r.stripes) :
              /\ r.stripes[k].x <= c - 1
              /\ c - 1 < r.stripes[k].x + r.stripes[k].w
        THEN LET k == CHOOSE k \in 1..Len(r.stripes) :
                        /\ r.stripes[k].x <= c - 1
                        /\ c - 1 < r.stripes[k].x + r.stripes[k].w
             IN  r.stripes[k].v
        ELSE 0]

\* blurred_image.point(lambda p: p > 0 and 255)
Binarize(p) == IF p > 0 THEN 255 ELSE 0

\* get_binary: the binary row of the raster (every row of the result)
BinarizeRow(blurred) == [c \in 1..Len(blurred) |-> Binarize(blurred[c])]
get_binary(r) == BinarizeRow(GaussianBlur(RasterRow(r)))

\* The connected components of a binary raster whose rows are all `row`:
\* the maximal runs of foreground columns, as <<first column, last column>>
\* (1-based).
RunStarts(row) == {c \in 1..Len(row) : row[c] # 0 /\ (c = 1 \/ row[c - 1] = 0)}
RunEnds(row) == {c \in 1..Len(row) : row[c] # 0 /\ (c = Len(row) \/ row[c + 1] = 0)}
Components(row) ==
    {<<a, CHOOSE e \in RunEnds(row) :
              e >= a /\ \A f \in RunEnds(row) : f >= a => e <= f>> : a \in RunStarts(row)}

\* cv2.boundingRect of the external contour of a component: (x, y, w, h)
boundingRect(run, height) == <<run[1] - 1, 0, run[2] - run[1] + 1, height>>

\* The orders in which the components of a set can be listed
Orderings(S) ==
    {f \in [1..Cardinality(S) -> S] : \A i, j \in 1..Cardinality(S) : i # j => f[i] # f[j]}

\* rois[i] is kept when sizes[i] > THRESHOLD_SIZE
LargerOrEqual(size, threshold) == size >= threshold
Larger(size, threshold) == size > threshold

RECURSIVE KeepLarge(_, _, _, _)
KeepLarge(boxes, sizes, threshold, i) ==
    IF i > Len(boxes) THEN <<>>
    ELSE (IF Larger(sizes[i], threshold) THEN <<boxes[i]>> ELSE <<>>)
            \o KeepLarge(boxes, sizes, threshold, i + 1)

\* The second half of get_rois: the sizes of the boxes and the boxes kept
RoiSizes(boxes) == [i \in 1..Len(boxes) |-> boxes[i][3] * boxes[i][4]]
FilterRois(boxes, threshold) == KeepLarge(boxes, RoiSizes(boxes), threshold, 1)

(***************************************************************************)
(* The index file                                                          *)
(***************************************************************************)
\* line.split("=")[1]: the second piece of the line; none when the line has
\* no "=" (an IndexError)
SecondPiece(line) ==
    IF Len(Split(line, "=")) < 2 THEN <<>> ELSE <<Split(line, "=")[2]>>

\* get_ndpi_filenames over the lines of the file: the channel paths, and
\* whether a line raised the IndexError
RECURSIVE ParseLines(_)
ParseLines(lines) ==
    IF lines = <<>> THEN [ok |-> TRUE, files |-> <<>>]
    ELSE IF ~EndsWith(Head(lines), NDPI_NL) THEN ParseLines(Tail(lines))
    ELSE IF SecondPiece(Head(lines)) = <<>> THEN [ok |-> FALSE, files |-> <<>>]
    ELSE LET rest == ParseLines(Tail(lines))
         IN  [ok |-> rest.ok,
              files |-> <<RStripNL(SecondPiece(Head(lines))[1])>> \o rest.files]

\* get_ndpi_filenames on a file of this content: the error it ends with, or
\* the list it returns
Outcome(parsed, bad) ==
    IF ~parsed.ok THEN [error |-> "IndexError@58", files |-> <<>>]
    ELSE IF bad THEN [error |-> "UnicodeDecodeError@55", files |-> <<>>]
    ELSE [error |-> "", files |-> parsed.files]
get_ndpi_filenames(content) ==
    Outcome(ParseLines(LinesRead(content)), DetectPos(content) # 0)

\* [f for f in ndpi_files if name in f]
TemplateMatches(files, name) == SelectSeq(files, LAMBDA f : Contains(name, f))

\* ...[0]
LastMatch(matches) == matches[Len(matches)]
FirstMatch(matches) == matches[1]

(***************************************************************************)
(* The configuration                                                       *)
(***************************************************************************)
\* The digits of int(): the decimal digits of Unicode (category Nd), a row
\* for every run of ten, from its zero to its nine
DigitRows == <<
    <<"0", "1", "2", "3", "4", "5", "6", "7", "8", "9">>,
    <<"U+0660", "U+0661", "U+0662", "U+0663", "U+0664", "U+0665",
      "U+0666", "U+0667", "U+0668", "U+0669">>,
    <<"U+06F0", "U+06F1", "U+06F2", "U+06F3", "U+06F4", "U+06F5",
      "U+06F6", "U+06F7", "U+06F8", "U+06F9">>,
    <<"U+07C0", "U+07C1", "U+07C2", "U+07C3", "U+07C4", "U+07C5",
      "U+07C6", "U+07C7", "U+07C8", "U+07C9">>,
    <<"U+0966", "U+0967", "U+0968", "U+0969", "U+096A", "U+096B",
      "U+096C", "U+096D", "U+096E", "U+096F">>,
    <<"U+09E6", "U+09E7", "U+09E8", "U+09E9", "U+09EA", "U+09EB",
      "U+09EC", "U+09ED", "U+09EE", "U+09EF">>,
    <<"U+0A66", "U+0A67", "U+0A68", "U+0A69", "U+0A6A", "U+0A6B",
      "U+0A6C", "U+0A6D", "U+0A6E", "U+0A6F">>,
    <<"U+0AE6", "U+0AE7", "U+0AE8", "U+0AE9", "U+0AEA", "U+0AEB",
      "U+0AEC", "U+0AED", "U+0AEE", "U+0AEF">>,
    <<"U+0B66", "U+0B67", "U+0B68", "U+0B69", "U+0B6A", "U+0B6B",
      "U+0B6C", "U+0B6D", "U+0B6E", "U+0B6F">>,
    <<"U+0BE6", "U+0BE7", "U+0BE8", "U+0BE9", "U+0BEA", "U+0BEB",
      "U+0BEC", "U+0BED", "U+0BEE", "U+0BEF">>,
    <<"U+0C66", "U+0C67", "U+0C68", "U+0C69", "U+0C6A", "U+0C6B",
      "U+0C6C", "U+0C6D", "U+0C6E", "U+0C6F">>,
    <<"U+0CE6", "U+0CE7", "U+0CE8", "U+0CE9", "U+0CEA", "U+0CEB",
      "U+0CEC", "U+0CED", "U+0CEE", "U+0CEF">>,
    <<"U+0D66", "U+0D67", "U+0D68", "U+0D69", "U+0D6A", "U+0D6B",
      "U+0D6C", "U+0D6D", "U+0D6E", "U+0D6F">>,
    <<"U+0DE6", "U+0DE7", "U+0DE8", "U+0DE9", "U+0DEA", "U+0DEB",
      "U+0DEC", "U+0DED", "U+0DEE", "U+0DEF">>,
    <<"U+0E50", "U+0E51", "U+0E52", "U+0E53", "U+0E54", "U+0E55",
      "U+0E56", "U+0E57", "U+0E58", "U+0E59">>,
    <<"U+0ED0", "U+0ED1", "U+0ED2", "U+0ED3", "U+0ED4", "U+0ED5",
      "U+0ED6", "U+0ED7", "U+0ED8", "U+0ED9">>,
    <<"U+0F20", "U+0F21", "U+0F22", "U+0F23", "U+0F24", "U+0F25",
      "U+0F26", "U+0F27", "U+0F28", "U+0F29">>,
    <<"U+1040", "U+1041", "U+1042", "U+1043", "U+1044", "U+1045",
      "U+1046", "U+1047", "U+1048", "U+1049">>,
    <<"U+1090", "U+1091", "U+1092", "U+1093", "U+1094", "U+1095",
      "U+1096", "U+1097", "U+1098", "U+1099">>,
    <<"U+17E0", "U+17E1", "U+17E2", "U+17E3", "U+17E4", "U+17E5",
      "U+17E6", "U+17E7", "U+17E8", "U+17E9">>,
    <<"U+1810", "U+1811", "U+1812", "U+1813", "U+1814", "U+1815",
      "U+1816", "U+1817", "U+1818", "U+1819">>,
    <<"U+1946", "U+1947", "U+1948", "U+1949", "U+194A", "U+194B",
      "U+194C", "U+194D", "U+194E", "U+194F">>,
    <<"U+19D0", "U+19D1", "U+19D2", "U+19D3", "U+19D4", "U+19D5",
      "U+19D6", "U+19D7", "U+19D8", "U+19D9">>,
    <<"U+1A80", "U+1A81", "U+1A82", "U+1A83", "U+1A84", "U+1A85",
      "U+1A86", "U+1A87", "U+1A88", "U+1A89">>,
    <<"U+1A90", "U+1A91", "U+1A92", "U+1A93", "U+1A94", "U+1A95",
      "U+1A96", "U+1A97", "U+1A98", "U+1A99">>,
    <<"U+1B50", "U+1B51", "U+1B52", "U+1B53", "U+1B54", "U+1B55",
      "U+1B56", "U+1B57", "U+1B58", "U+1B59">>,
    <<"U+1BB0", "U+1BB1", "U+1BB2", "U+1BB3", "U+1BB4", "U+1BB5",
      "U+1BB6", "U+1BB7", "U+1BB8", "U+1BB9">>,
    <<"U+1C40", "U+1C41", "U+1C42", "U+1C43", "U+1C44", "U+1C45",
      "U+1C46", "U+1C47", "U+1C48", "U+1C49">>,
    <<"U+1C50", "U+1C51", "U+1C52", "U+1C53", "U+1C54", "U+1C55",
      "U+1C56", "U+1C57", "U+1C58", "U+1C59">>,
    <<"U+A620", "U+A621", "U+A622", "U+A623", "U+A624", "U+A625",
      "U+A626", "U+A627", "U+A628", "U+A629">>,
    <<"U+A8D0", "U+A8D1", "U+A8D2", "U+A8D3", "U+A8D4", "U+A8D5",
      "U+A8D6", "U+A8D7", "U+A8D8", "U+A8D9">>,
    <<"U+A900", "U+A901", "U+A902", "U+A903", "U+A904", "U+A905",
      "U+A906", "U+A907", "U+A908", "U+A909">>,
    <<"U+A9D0", "U+A9D1", "U+A9D2", "U+A9D3", "U+A9D4", "U+A9D5",
      "U+A9D6", "U+A9D7", "U+A9D8", "U+A9D9">>,
    <<"U+A9F0", "U+A9F1", "U+A9F2", "U+A9F3", "U+A9F4", "U+A9F5",
      "U+A9F6", "U+A9F7", "U+A9F8", "U+A9F9">>,
    <<"U+AA50", "U+AA51", "U+AA52", "U+AA53", "U+AA54", "U+AA55",
      "U+AA56", "U+AA57", "U+AA58", "U+AA59">>,
    <<"U+ABF0", "U+ABF1", "U+ABF2", "U+ABF3", "U+ABF4", "U+ABF5",
      "U+ABF6", "U+ABF7", "U+ABF8", "U+ABF9">>,
    <<"U+FF10", "U+FF11", "U+FF12", "U+FF13", "U+FF14", "U+FF15",
      "U+FF16", "U+FF17", "U+FF18", "U+FF19">>,
    <<"U+104A0", "U+104A1", "U+104A2", "U+104A3", "U+104A4", "U+104A5",
      "U+104A6", "U+104A7", "U+104A8", "U+104A9">>,
    <<"U+10D30", "U+10D31", "U+10D32", "U+10D33", "U+10D34", "U+10D35",
      "U+10D36", "U+10D37", "U+10D38", "U+10D39">>,
    <<"U+11066", "U+11067", "U+11068", "U+11069", "U+1106A", "U+1106B",
      "U+1106C", "U+1106D", "U+1106E", "U+1106F">>,
    <<"U+110F0", "U+110F1", "U+110F2", "U+110F3", "U+110F4", "U+110F5",
      "U+110F6", "U+110F7", "U+110F8", "U+110F9">>,
    <<"U+11136", "U+11137", "U+11138", "U+11139", "U+1113A", "U+1113B",
      "U+1113C", "U+1113D", "U+1113E", "U+1113F">>,
    <<"U+111D0", "U+111D1", "U+111D2", "U+111D3", "U+111D4", "U+111D5",
      "U+111D6", "U+111D7", "U+111D8", "U+111D9">>,
    <<"U+112F0", "U+112F1", "U+112F2", "U+112F3", "U+112F4", "U+112F5",
      "U+112F6", "U+112F7", "U+112F8", "U+112F9">>,
    <<"U+11450", "U+11451", "U+11452", "U+11453", "U+11454", "U+11455",
      "U+11456", "U+11457", "U+11458", "U+11459">>,
    <<"U+114D0", "U+114D1", "U+114D2", "U+114D3", "U+114D4", "U+114D5",
      "U+114D6", "U+114D7", "U+114D8", "U+114D9">>,
    <<"U+11650", "U+11651", "U+11652", "U+11653", "U+11654", "U+11655",
      "U+11656", "U+11657", "U+11658", "U+11659">>,
    <<"U+116C0", "U+116C1", "U+116C2", "U+116C3", "U+116C4", "U+116C5",
      "U+116C6", "U+116C7", "U+116C8", "U+116C9">>,
    <<"U+11730", "U+11731", "U+11732", "U+11733", "U+11734", "U+11735",
      "U+11736", "U+11737", "U+11738", "U+11739">>,
    <<"U+118E0", "U+118E1", "U+118E2", "U+118E3", "U+118E4", "U+118E5",
      "U+118E6", "U+118E7", "U+118E8", "U+118E9">>,
    <<"U+11950", "U+11951", "U+11952", "U+11953", "U+11954", "U+11955",
      "U+11956", "U+11957", "U+11958", "U+11959">>,
    <<"U+11C50", "U+11C51", "U+11C52", "U+11C53", "U+11C54", "U+11C55",
      "U+11C56", "U+11C57", "U+11C58", "U+11C59">>,
    <<"U+11D50", "U+11D51", "U+11D52", "U+11D53", "U+11D54", "U+11D55",
      "U+11D56", "U+11D57", "U+11D58", "U+11D59">>,
    <<"U+11DA0", "U+11DA1", "U+11DA2", "U+11DA3", "U+11DA4", "U+11DA5",
      "U+11DA6", "U+11DA7", "U+11DA8", "U+11DA9">>,
    <<"U+16A60", "U+16A61", "U+16A62", "U+16A63", "U+16A64", "U+16A65",
      "U+16A66", "U+16A67", "U+16A68", "U+16A69">>,
    <<"U+16AC0", "U+16AC1", "U+16AC2", "U+16AC3", "U+16AC4", "U+16AC5",
      "U+16AC6", "U+16AC7", "U+16AC8", "U+16AC9">>,
    <<"U+16B50", "U+16B51", "U+16B52", "U+16B53", "U+16B54", "U+16B55",
      "U+16B56", "U+16B57", "U+16B58", "U+16B59">>,
    <<"U+1D7CE", "U+1D7CF", "U+1D7D0", "U+1D7D1", "U+1D7D2", "U+1D7D3",
      "U+1D7D4", "U+1D7D5", "U+1D7D6", "U+1D7D7">>,
    <<"U+1D7D8", "U+1D7D9", "U+1D7DA", "U+1D7DB", "U+1D7DC", "U+1D7DD",
      "U+1D7DE", "U+1D7DF", "U+1D7E0", "U+1D7E1">>,
    <<"U+1D7E2", "U+1D7E3", "U+1D7E4", "U+1D7E5", "U+1D7E6", "U+1D7E7",
      "U+1D7E8", "U+1D7E9", "U+1D7EA", "U+1D7EB">>,
    <<"U+1D7EC", "U+1D7ED", "U+1D7EE", "U+1D7EF", "U+1D7F0", "U+1D7F1",
      "U+1D7F2", "U+1D7F3", "U+1D7F4", "U+1D7F5">>,
    <<"U+1D7F6", "U+1D7F7", "U+1D7F8", "U+1D7F9", "U+1D7FA", "U+1D7FB",
      "U+1D7FC", "U+1D7FD", "U+1D7FE", "U+1D7FF">>,
    <<"U+1E140", "U+1E141", "U+1E142", "U+1E143", "U+1E144", "U+1E145",
      "U+1E146", "U+1E147", "U+1E148", "U+1E149">>,
    <<"U+1E2F0", "U+1E2F1", "U+1E2F2", "U+1E2F3", "U+1E2F4", "U+1E2F5",
      "U+1E2F6", "U+1E2F7", "U+1E2F8", "U+1E2F9">>,
    <<"U+1E950", "U+1E951", "U+1E952", "U+1E953", "U+1E954", "U+1E955",
      "U+1E956", "U+1E957", "U+1E958", "U+1E959">>,
    <<"U+1FBF0", "U+1FBF1", "U+1FBF2", "U+1FBF3", "U+1FBF4", "U+1FBF5",
      "U+1FBF6", "U+1FBF7", "U+1FBF8", "U+1FBF9">>
    >>
Digits == {DigitRows[r][k] : r \in 1..Len(DigitRows), k \in 1..10}
DigitValue(c) ==
    CHOOSE d \in 0..9 : \E r \in 1..Len(DigitRows) : DigitRows[r][d + 1] = c

\* The blanks int() drops around the number: the whitespace of Unicode
Whitespace ==
    {"\t", "\n", "U+000B", "\f", "\r", " ", "U+0085", "U+00A0", "U+1680",
     "U+2000", "U+2001", "U+2002", "U+2003", "U+2004", "U+2005", "U+2006",
     "U+2007", "U+2008", "U+2009", "U+200A", "U+2028", "U+2029", "U+202F",
     "U+205F", "U+3000"}

\* int() refuses a text of more digits (sys.int_info.default_max_str_digits)
MaxStrDigits == 4300

\* How many elements of S begin s, and how many end it
Leading(s, S) ==
    IF \A k \in 1..Len(s) : s[k] \in S THEN Len(s)
    ELSE (CHOOSE k \in 1..Len(s) :
            s[k] \notin S /\ \A j \in 1..(k - 1) : s[j] \in S) - 1
Trailing(s, S) ==
    IF \A k \in 1..Len(s) : s[k] \in S THEN Len(s)
    ELSE Len(s) - (CHOOSE k \in 1..Len(s) :
                    s[k] \notin S /\ \A j \in (k + 1)..Len(s) : s[j] \in S)

\* int(s): the blanks around the number are dropped; the number is an
\* optional sign and decimal digits, where single underscores may stand
\* between digits; a text of more than MaxStrDigits digits, and any other
\* text, is a ValueError
Strip(s) == SubSeq(s, Leading(s, Whitespace) + 1, Len(s) - Trailing(s, Whitespace))
Unsigned(s) == IF Len(s) > 0 /\ s[1] \in {"+", "-"} THEN Tail(s) ELSE s
DigitsOf(body) == SelectSeq(body, LAMBDA c : c \in Digits)
IsDigits(body) ==
    /\ Len(body) > 0
    /\ body[1] \in Digits /\ body[Len(body)] \in Digits
    /\ \A k \in 1..Len(body) : body[k] \in Digits \cup {"_"}
    /\ \A k \in 1..(Len(body) - 1) : ~(body[k] = "_" /\ body[k + 1] = "_")
    /\ Len(DigitsOf(body)) <= MaxStrDigits
IsInt(s) == IsDigits(Unsigned(Strip(s)))

\* The value of int(s). A Python int has no width: it is held as its
\* decimal numeral, as str() writes it ("-" and ASCII digits, no leading
\* zero)
ToAscii(ds) == [k \in 1..Len(ds) |-> Digit(DigitValue(ds[k]))]
Significant(ds) ==
    SubSeq(ds, (IF Leading(ds, {"0"}) = Len(ds) THEN Len(ds) - 1
                ELSE Leading(ds, {"0"})) + 1, Len(ds))
Magnitude(s) == Significant(ToAscii(DigitsOf(Unsigned(Strip(s)))))
IntOf(s) ==
    IF Strip(s)[1] = "-" /\ Magnitude(s) # <<"0">> THEN <<"-">> \o Magnitude(s)
    ELSE Magnitude(s)

\* The number a numeral of a few digits writes
RECURSIVE NatOf(_)
NatOf(s) == IF s = <<>> THEN 0
            ELSE 10 * NatOf(SubSeq(s, 1, Len(s) - 1)) + DigitValue(s[Len(s)])

\* t[LEVEL] of a tuple of n entries is an entry for -n <= LEVEL < n, a
\* negative LEVEL counting from the end, and an IndexError otherwise
IsNegative(level) == level[1] = "-"
IndexInRange(level, n) ==
    IF IsNegative(level)
    THEN Len(level) <= 10 /\ NatOf(Tail(level)) <= n
    ELSE Len(level) <= 9 /\ NatOf(level) < n

ThresholdLevel0 == 10000000
ThresholdLevel1 == 1000000

\* THRESHOLD_SIZE after the if/elif: bound for levels 0 and 1 only
ThresholdFor(level) ==
    IF level = <<"0">> THEN <<ThresholdLevel0>>
    ELSE IF level = <<"1">> THEN <<ThresholdLevel1>>
    ELSE <<>>

INPUT_FOLDER == <<"i", "n">>
output_dir == INPUT_FOLDER \o <<"/">> \o OUT_DIR

\* output_filename of a channel, and the file a crop is saved as
OutputFilename(ndpi_file) == PathJoin(output_dir, SplitextRoot(Basename(ndpi_file)))
CropFilename(output_filename, i) == output_filename \o ROI_TAG \o Str(i) \o TIF


(***************************************************************************)
(* The state of a run                                                      *)
(***************************************************************************)
VARIABLES
    \* what the run is given
    input_level,        \* the text typed for the resolution level
    input_template,     \* CROPPING_TEMPLATE_CHANNEL_NAME
    folder,             \* for every name os.listdir gives that ends with
                        \* .ndpis, in its order: what open(name) finds from
                        \* the working directory
    slides,             \* channel path -> the slide open_slide finds: the
                        \* number of levels of its pyramid and the raster
                        \* read_region yields at the level of the run
    dir_existed,        \* whether os.path.exists(output_dir) before the run
    fault,              \* what the prompts and the folder hold against the run
    \* the script's variables and position
    pc, error, LEVEL, THRESHOLD_SIZE, set_idx, ndpi_files,
    CROPPING_TEMPLATE_CHANNEL, contours, rois, number_of_rois, ch_idx,
    output_filename, roi_idx,
    \* the rasters alive: the RGBA raster read_region has yielded inside
    \* ndpi_2_tif, its conversion that is not bound yet, get_rois's local
    \* tiff_image, and the module's tiff_image
    region, fresh, local_tiff, tiff_image,
    \* what the run has done
    dir_created, index_reads, decodes, roi_source, printed, saved

env == <<input_level, input_template, folder, slides, dir_existed, fault>>
prog == <<pc, error, LEVEL, THRESHOLD_SIZE, set_idx, ndpi_files,
          CROPPING_TEMPLATE_CHANNEL, contours, rois, number_of_rois, ch_idx,
          output_filename, roi_idx>>
bound == <<region, fresh, local_tiff, tiff_image>>
done == <<dir_created, index_reads, decodes, roi_source, printed, saved>>
vars == <<env, prog, bound, done>>

\* The state before the first prompt
Start ==
    /\ pc = "configure" /\ error = ""
    /\ LEVEL = <<>> /\ THRESHOLD_SIZE = <<>>
    /\ set_idx = 0 /\ ndpi_files = <<>>
    /\ CROPPING_TEMPLATE_CHANNEL = <<>>
    /\ contours = <<>> /\ rois = <<>> /\ number_of_rois = 0
    /\ ch_idx = 0 /\ output_filename = <<>> /\ roi_idx = 0
    /\ region = <<>> /\ fresh = <<>> /\ local_tiff = <<>> /\ tiff_image = <<>>
    /\ dir_created = FALSE /\ index_reads = {} /\ decodes = <<>>
    /\ roi_source = <<>> /\ printed = <<>> /\ saved = <<>>

\* An uncaught exception ends the run; e names it and the line that raised it
Raise(e) == pc' = "error" /\ error' = e

\* What the prompts and the folder hold against the run. A run ends at the
\* first call that fails, so one fault a run gives every outcome:
\*   eof            the input ends before the prompt of line `at` is
\*                  answered: input() raises EOFError
\*   dangling_link  tif_files is a symbolic link to nothing: os.path.exists
\*                  is False and os.makedirs raises FileExistsError
\*   unwritable     the input folder takes no new entry: os.makedirs raises
\*   folder_is_file the input folder is a regular file: os.makedirs raises
\*   unlistable     the input folder cannot be listed: os.listdir raises
NoFault == [kind |-> "none", at |-> 0]
InputError(line) ==
    IF fault.kind = "eof" /\ fault.at = line
    THEN (IF line = 24 THEN "EOFError@24"
          ELSE IF line = 26 THEN "EOFError@26" ELSE "EOFError@29")
    ELSE ""
MakedirsError ==
    IF fault.kind = "dangling_link" THEN "FileExistsError@43"
    ELSE IF fault.kind = "unwritable" THEN "PermissionError@43"
    ELSE IF fault.kind = "folder_is_file" THEN "NotADirectoryError@43"
    ELSE ""
ListdirError == IF fault.kind = "unlistable" THEN "PermissionError@48" ELSE ""

\* What open(ndpis_file, 'r') finds under a listed name: the bytes of a file
\* (the listed one when the run is started in the input folder, whatever
\* file has the name in the working directory otherwise), a directory, no
\* entry, a file that may not be read, or a symbolic link that leads back to
\* itself
File(content) == [kind |-> "file", content |-> content]
NoFile(kind) == [kind |-> kind, content |-> <<>>]
OpenError(entry) ==
    IF entry.kind = "dir" THEN "IsADirectoryError@54"
    ELSE IF entry.kind = "missing" THEN "FileNotFoundError@54"
    ELSE IF entry.kind = "denied" THEN "PermissionError@54"
    ELSE IF entry.kind = "loop" THEN "OSError@54"
    ELSE ""

\* Lines 24-50: the prompts, the threshold, the output directory, the listing
Configure ==
    /\ pc = "configure"
    /\ IF InputError(24) # "" \/ InputError(26) # "" \/ InputError(29) # ""
       THEN /\ Raise(IF InputError(24) # "" THEN InputError(24)
                     ELSE IF InputError(26) # "" THEN InputError(26)
                     ELSE InputError(29))
            /\ UNCHANGED <<LEVEL, THRESHOLD_SIZE, dir_created>>
       ELSE IF ~IsInt(input_level)
       THEN /\ Raise("ValueError@29")
            /\ UNCHANGED <<LEVEL, THRESHOLD_SIZE, dir_created>>
       ELSE /\ LEVEL' = <<IntOf(input_level)>>
            /\ THRESHOLD_SIZE' = ThresholdFor(IntOf(input_level))
            /\ IF ~dir_existed /\ MakedirsError # ""
               THEN Raise(MakedirsError) /\ dir_created' = FALSE
               ELSE /\ dir_created' = ~dir_existed
                    /\ IF ListdirError # ""
                       THEN Raise(ListdirError)
                       ELSE pc' = "next_set" /\ error' = error
    /\ UNCHANGED <<env, bound, set_idx, ndpi_files, CROPPING_TEMPLATE_CHANNEL,
                   contours, rois, number_of_rois, ch_idx, output_filename,
                   roi_idx, index_reads, decodes, roi_source, printed, saved>>

\* Line 114: the next index file, or the end of the run
NextSet ==
    /\ pc = "next_set"
    /\ IF set_idx < Len(folder)
       THEN set_idx' = set_idx + 1 /\ pc' = "resolve"
       ELSE set_idx' = set_idx /\ pc' = "done"
    /\ UNCHANGED <<env, bound, done, error, LEVEL, THRESHOLD_SIZE, ndpi_files,
                   CROPPING_TEMPLATE_CHANNEL, contours, rois, number_of_rois,
                   ch_idx, output_filename, roi_idx>>

\* Line 116: ndpi_files = get_ndpi_filenames(ndpis_file)
Resolve ==
    /\ pc = "resolve"
    /\ index_reads' = index_reads \cup {set_idx}
    /\ IF OpenError(folder[set_idx]) # ""
       THEN Raise(OpenError(folder[set_idx])) /\ ndpi_files' = ndpi_files
       ELSE IF get_ndpi_filenames(folder[set_idx].content).error # ""
       THEN /\ Raise(get_ndpi_filenames(folder[set_idx].content).error)
            /\ ndpi_files' = ndpi_files
       ELSE /\ ndpi_files' = get_ndpi_filenames(folder[set_idx].content).files
            /\ pc' = "select" /\ error' = error
    /\ UNCHANGED <<env, bound, LEVEL, THRESHOLD_SIZE, set_idx,
                   CROPPING_TEMPLATE_CHANNEL, contours, rois, number_of_rois,
                   ch_idx, output_filename, roi_idx, dir_created, decodes,
                   roi_source, printed, saved>>

\* Line 118: the template channel
SelectTemplate ==
    /\ pc = "select"
    /\ IF TemplateMatches(ndpi_files, input_template) = <<>>
       THEN /\ Raise("IndexError@118")
            /\ CROPPING_TEMPLATE_CHANNEL' = CROPPING_TEMPLATE_CHANNEL
       ELSE /\ CROPPING_TEMPLATE_CHANNEL' =
                    FirstMatch(TemplateMatches(ndpi_files, input_template))
            /\ pc' = "rois_decode" /\ error' = error
    /\ UNCHANGED <<env, bound, done, LEVEL, THRESHOLD_SIZE, set_idx, ndpi_files,
                   contours, rois, number_of_rois, ch_idx, output_filename,
                   roi_idx>>

\* The channel get_rois(ndpi_file) decodes: ndpi_files[0], whatever ndpi_file
RoiChannel(ndpi_file, files) == files[1]

\* ndpi_2_tif(path) at a level, up to the region read: the ways it can end.
\* open_slide raises when no slide is found under the path;
\* level_dimensions[LEVEL] raises an IndexError when the pyramid has no such
\* entry; at a negative LEVEL that counts an entry from the end, read_region
\* is asked for a level that the slide does not number: it raises or it
\* yields a raster
ndpi_2_tif(path, level) ==
    IF path \notin DOMAIN slides THEN {"DecodeError"}
    ELSE IF ~IndexInRange(level, slides[path].levels) THEN {"IndexError"}
    ELSE IF IsNegative(level) THEN {"", "DecodeError"}
    ELSE {""}
Raster(set, path) == [set |-> set, path |-> path]

\* Lines 120, 87 and 67-69: get_rois is entered and ndpi_2_tif reads the
\* region of its channel
GetRoisDecode ==
    /\ pc = "rois_decode"
    /\ LET path == RoiChannel(CROPPING_TEMPLATE_CHANNEL, ndpi_files)
       IN  \E end \in ndpi_2_tif(path, LEVEL[1]) :
             IF end = ""
             THEN /\ region' = <<Raster(set_idx, path)>>
                  /\ decodes' = Append(decodes, Raster(set_idx, path))
                  /\ roi_source' = path
                  /\ pc' = "rois_convert" /\ error' = error
             ELSE /\ Raise(IF end = "IndexError" THEN "IndexError@87"
                           ELSE "DecodeError@87")
                  /\ UNCHANGED <<region, decodes, roi_source>>
    /\ UNCHANGED <<env, fresh, local_tiff, tiff_image, LEVEL, THRESHOLD_SIZE,
                   set_idx, ndpi_files, CROPPING_TEMPLATE_CHANNEL, contours,
                   rois, number_of_rois, ch_idx, output_filename, roi_idx,
                   dir_created, index_reads, printed, saved>>

\* Line 69, .convert('L'): a second raster is made of the region, which the
\* call holds until it returns
ConvertRegion ==
    /\ pc \in {"rois_convert", "convert"}
    /\ fresh' = region
    /\ pc' = (IF pc = "rois_convert" THEN "rois_return" ELSE "return")
    /\ UNCHANGED <<env, done, region, local_tiff, tiff_image, error, LEVEL,
                   THRESHOLD_SIZE, set_idx, ndpi_files,
                   CROPPING_TEMPLATE_CHANNEL, contours, rois, number_of_rois,
                   ch_idx, output_filename, roi_idx>>

\* Lines 69-71: the region is released when the statement ends, the slide is
\* closed and the converted raster returned
ReturnRaster ==
    /\ pc \in {"rois_return", "return"}
    /\ region' = <<>>
    /\ pc' = (IF pc = "rois_return" THEN "rois_bind" ELSE "bind")
    /\ UNCHANGED <<env, done, fresh, local_tiff, tiff_image, error, LEVEL,
                   THRESHOLD_SIZE, set_idx, ndpi_files,
                   CROPPING_TEMPLATE_CHANNEL, contours, rois, number_of_rois,
                   ch_idx, output_filename, roi_idx>>

\* Line 87, the assignment: get_rois binds the raster to its tiff_image
BindLocal ==
    /\ pc = "rois_bind"
    /\ local_tiff' = fresh
    /\ fresh' = <<>>
    /\ pc' = "rois_segment"
    /\ UNCHANGED <<env, done, region, tiff_image, error, LEVEL, THRESHOLD_SIZE,
                   set_idx, ndpi_files, CROPPING_TEMPLATE_CHANNEL, contours,
                   rois, number_of_rois, ch_idx, output_filename, roi_idx>>

\* What get_rois's tiff_image is bound to once get_rois has returned
ReleasedAfterReturn(local) == <<>>

\* Lines 89-108 and 120-122: the binary image, its contours in the order
\* findContours lists them, their boxes, the boxes kept, and the return
GetRoisSegment ==
    /\ pc = "rois_segment"
    /\ \E order \in Orderings(Components(get_binary(slides[local_tiff[1].path]))) :
         LET boxes == [i \in 1..Len(order) |->
                          boundingRect(order[i], slides[local_tiff[1].path].height)]
         IN  /\ contours' = boxes
             /\ IF boxes # <<>> /\ THRESHOLD_SIZE = <<>>
                THEN /\ Raise("NameError@106")
                     /\ UNCHANGED <<rois, number_of_rois, local_tiff>>
                ELSE /\ rois' = (IF boxes = <<>> THEN <<>>
                                 ELSE FilterRois(boxes, THRESHOLD_SIZE[1]))
                     /\ number_of_rois' = Len(rois')
                     /\ local_tiff' = ReleasedAfterReturn(local_tiff)
                     /\ pc' = "next_channel" /\ error' = error
    /\ ch_idx' = 0
    /\ UNCHANGED <<env, region, fresh, tiff_image, done, LEVEL, THRESHOLD_SIZE,
                   set_idx, ndpi_files, CROPPING_TEMPLATE_CHANNEL,
                   output_filename, roi_idx>>

\* Lines 125-129: the next channel of the set; one that does not end with
\* .ndpi is passed over
NextChannel ==
    /\ pc = "next_channel"
    /\ IF ch_idx < Len(ndpi_files)
       THEN /\ ch_idx' = ch_idx + 1
            /\ IF EndsWith(ndpi_files[ch_idx + 1], NDPI)
               THEN /\ output_filename' = OutputFilename(ndpi_files[ch_idx + 1])
                    /\ pc' = "decode"
               ELSE UNCHANGED <<output_filename, pc>>
       ELSE /\ pc' = "next_set"
            /\ UNCHANGED <<ch_idx, output_filename>>
    /\ UNCHANGED <<env, bound, done, error, LEVEL, THRESHOLD_SIZE, set_idx,
                   ndpi_files, CROPPING_TEMPLATE_CHANNEL, contours, rois,
                   number_of_rois, roi_idx>>

\* Lines 132 and 67-69: ndpi_2_tif(ndpi_file) reads the region of the
\* channel, while tiff_image is bound to the raster of the channel before
DecodeChannel ==
    /\ pc = "decode"
    /\ \E end \in ndpi_2_tif(ndpi_files[ch_idx], LEVEL[1]) :
         IF end = ""
         THEN /\ region' = <<Raster(set_idx, ndpi_files[ch_idx])>>
              /\ decodes' = Append(decodes, Raster(set_idx, ndpi_files[ch_idx]))
              /\ pc' = "convert" /\ error' = error
         ELSE /\ Raise(IF end = "IndexError" THEN "IndexError@132"
                       ELSE "DecodeError@132")
              /\ UNCHANGED <<region, decodes>>
    /\ UNCHANGED <<env, fresh, local_tiff, tiff_image, LEVEL, THRESHOLD_SIZE, set_idx,
                   ndpi_files, CROPPING_TEMPLATE_CHANNEL, contours, rois,
                   number_of_rois, ch_idx, output_filename, roi_idx,
                   dir_created, index_reads, roi_source, printed, saved>>

\* Line 132, the assignment: tiff_image is rebound, its old raster released
BindChannel ==
    /\ pc = "bind"
    /\ tiff_image' = fresh
    /\ fresh' = <<>>
    /\ roi_idx' = 0
    /\ pc' = "crop"
    /\ UNCHANGED <<env, done, region, local_tiff, error, LEVEL, THRESHOLD_SIZE,
                   set_idx, ndpi_files, CROPPING_TEMPLATE_CHANNEL, contours,
                   rois, number_of_rois, ch_idx, output_filename>>

\* The crop of roi i of a channel, as saved
Crop(i) ==
    [set |-> set_idx, channel |-> ch_idx, i |-> i,
     source |-> tiff_image[1].path, box |-> rois[i + 1],
     dest |-> CropFilename(output_filename, i)]

\* Lines 136-142: the next roi is cropped and its progress line printed
CropAndPrint ==
    /\ pc = "crop"
    /\ IF roi_idx < Len(rois)
       THEN /\ printed' = Append(printed,
                    [ordinal |-> roi_idx + 1, total |-> number_of_rois,
                     dims |-> <<rois[roi_idx + 1][3], rois[roi_idx + 1][4]>>,
                     dest |-> CropFilename(output_filename, roi_idx)])
            /\ pc' = "save"
       ELSE /\ pc' = "next_channel"
            /\ printed' = printed
    /\ UNCHANGED <<env, bound, error, LEVEL, THRESHOLD_SIZE, set_idx,
                   ndpi_files, CROPPING_TEMPLATE_CHANNEL, contours, rois,
                   number_of_rois, ch_idx, output_filename, roi_idx,
                   dir_created, index_reads, decodes, roi_source, saved>>

\* Line 143: the crop is saved, or the write fails
Save ==
    /\ pc = "save"
    /\ \E written \in BOOLEAN :
         IF written
         THEN /\ saved' = Append(saved, Crop(roi_idx))
              /\ roi_idx' = roi_idx + 1
              /\ pc' = "crop" /\ error' = error
         ELSE /\ Raise("IOError@143")
              /\ UNCHANGED <<saved, roi_idx>>
    /\ UNCHANGED <<env, bound, LEVEL, THRESHOLD_SIZE, set_idx, ndpi_files,
                   CROPPING_TEMPLATE_CHANNEL, contours, rois, number_of_rois,
                   ch_idx, output_filename, dir_created, index_reads, decodes,
                   roi_source, printed>>

Next ==
    \/ Configure \/ NextSet \/ Resolve \/ SelectTemplate
    \/ GetRoisDecode \/ ConvertRegion \/ ReturnRaster \/ BindLocal
    \/ GetRoisSegment
    \/ NextChannel \/ DecodeChannel \/ BindChannel \/ CropAndPrint \/ Save


(***************************************************************************)
(* What a run is given                                                     *)
(***************************************************************************)
MaxSets == 2        \* index files in the folder
MaxLines == 3       \* lines of a generated index file
MaxStripes == 2     \* stripes of a generated raster
RasterWidth == 300  \* columns of a raster

LineMeta == <<"n", "=", "2", "\n">>
LineD == <<"A", "=", "D">> \o NDPI_NL
LineF == <<"B", "=", "F">> \o NDPI_NL
LinePF == <<"C", "=", "p", "/", "F">> \o NDPI_NL
LineTwoEq == <<"E", "=", "q", "=", "D">> \o NDPI_NL
LineNoEq == <<"D">> \o NDPI_NL
LineFNoNL == <<"B", "=", "F">> \o NDPI
LineDCRLF == <<"A", "=", "D">> \o NDPI \o <<"\r", "\n">>
LineFCR == <<"B", "=", "F">> \o NDPI \o <<"\r">>
\* A channel named with an e acute, two bytes in the file
LineUtf == <<"G", "=", "0xC3", "0xA9">> \o NDPI_NL

PathD == <<"D">> \o NDPI
PathF == <<"F">> \o NDPI
PathPF == <<"p", "/", "F">> \o NDPI

RECURSIVE Concat(_)
Concat(lines) == IF lines = <<>> THEN <<>> ELSE Head(lines) \o Concat(Tail(lines))

SeqsUpTo(S, n) == UNION {[1..k -> S] : k \in 0..n}
Distinct(f) == \A i, j \in 1..Len(f) : i # j => f[i] # f[j]

LevelInputs == {<<"0">>, <<"1">>, <<"2">>, <<"x">>, <<"-", "1">>}
\* Other ways to type a level: 1 after a blank, 10 with an underscore, 1 as
\* an Arabic-Indic digit before a vertical tab, 0 with a sign and zeros
LevelTexts ==
    {<<" ", "1">>, <<"1", "_", "0">>, <<"U+0661", "U+000B">>, <<"-", "0", "0">>}
Templates == {<<"D">>, <<"F">>}

\* The index files of the runs: the template channel first, the template
\* channel second, two channels of one basename, a line with two "=", and
\* a file that names no channel
IndexFiles ==
    {File(c) : c \in
        {Concat(<<LineMeta, LineD, LineF>>), Concat(<<LineF, LineD>>),
         Concat(<<LineF, LinePF>>), Concat(<<LineD, LineTwoEq>>), LineMeta}}

\* The names that end a run when they are opened or read: a directory named
\* *.ndpis, a name that the working directory does not hold, a file that
\* may not be read, a link that loops, a file with a bad byte
Broken ==
    {NoFile("dir"), NoFile("missing"), NoFile("denied"), NoFile("loop"),
     File(LineD \o <<BadByte>>)}

\* The folders of the runs: index files, with a broken name last or none
Listings ==
    {f \in SeqsUpTo(IndexFiles, MaxSets) : Distinct(f)}
        \cup {Append(f, b) : f \in {g \in SeqsUpTo(IndexFiles, MaxSets - 1) : Distinct(g)},
                             b \in Broken}

\* The slides of the runs: D holds two bright stripes and has three levels,
\* F a faint stripe, p/F a bright one, of two levels each
Stripe(x, w, v) == [x |-> x, w |-> w, v |-> v]
Slide(levels, width, height, stripes) ==
    [levels |-> levels, width |-> width, height |-> height, stripes |-> stripes]
RasterD == Slide(3, RasterWidth, 100000,
                 <<Stripe(64, 10, 255), Stripe(226, 10, 255)>>)
RasterF == Slide(2, RasterWidth, 100000, <<Stripe(100, 40, 1)>>)
RasterPF == Slide(2, RasterWidth, 100000, <<Stripe(100, 20, 255)>>)
AllSlides ==
    [p \in {PathD, PathF, PathPF} |->
        IF p = PathD THEN RasterD ELSE IF p = PathF THEN RasterF ELSE RasterPF]
\* All three slides; no slide under p/F.ndpi; F of one level only
SlideSets ==
    {AllSlides, [p \in {PathD, PathF} |-> AllSlides[p]],
     [AllSlides EXCEPT ![PathF].levels = 1]}

\* The faults of a run: tif_files is missing where os.makedirs is to fail
Faults(existed) ==
    {[kind |-> "eof", at |-> l] : l \in {24, 26, 29}}
        \cup {[kind |-> "unlistable", at |-> 0]}
        \cup (IF existed THEN {}
              ELSE {[kind |-> k, at |-> 0] :
                        k \in {"dangling_link", "unwritable", "folder_is_file"}})

\* A run without a fault over every level, template, folder and slide set,
\* a run over one folder with the level typed another way, or a run with a
\* fault, which ends before the folder is read
Init ==
    /\ \/ /\ fault = NoFault
          /\ input_level \in LevelInputs
          /\ input_template \in Templates
          /\ folder \in Listings
          /\ slides \in SlideSets
          /\ dir_existed \in BOOLEAN
       \/ /\ fault = NoFault
          /\ input_level \in LevelTexts
          /\ input_template = <<"D">>
          /\ folder = <<File(Concat(<<LineF, LineD>>))>>
          /\ slides = AllSlides
          /\ dir_existed \in BOOLEAN
       \/ /\ dir_existed \in BOOLEAN
          /\ fault \in Faults(dir_existed)
          /\ input_level \in {<<"1">>, <<"2">>, <<"x">>}
          /\ input_template = <<"D">>
          /\ folder \in {<<>>, <<File(LineD)>>}
          /\ slides = AllSlides
    /\ Start

Spec == Init /\ [][Next]_vars

(***************************************************************************)
(* get_ndpi_filenames and the template selection on generated index files  *)
(***************************************************************************)
Lines == {LineMeta, LineD, LineF, LinePF, LineTwoEq, LineNoEq, LineFNoNL,
          LineDCRLF, LineFCR, LineUtf}

\* What ends a file that is no text: a byte that leads nothing, a lead byte
\* the file ends after, a continuation byte that continues nothing, a
\* second byte its lead byte does not take, the start of a surrogate
BadTails ==
    {<<BadByte>>, <<"0xC3">>, <<"0xA9">>, <<"0xE0", "0x80">>, <<"0xED", "0xA0">>}

\* Files of more than one buffer: a line without "=", a line that fills
\* the first buffer, and a bad byte in the second buffer; a line with "=",
\* and a character of two bytes across the two buffers before the bad byte;
\* the start of a surrogate that ends the first buffer
Padding(n) == [k \in 1..n |-> "#"]
LongFiles ==
    {File(LineNoEq \o Padding(ReadBuffer) \o <<BadByte>>),
     File(LineD \o Padding(ReadBuffer - Len(LineD) - 1)
            \o <<"0xC3", "0xA9", "\n", BadByte>>),
     File(LineNoEq \o Padding(ReadBuffer - Len(LineNoEq) - 2)
            \o <<"0xED", "0xA0", "0x80">>)}

InitParse ==
    /\ input_level = <<"1">>
    /\ input_template \in Templates
    /\ \/ \E lines \in SeqsUpTo(Lines, MaxLines) : folder = <<File(Concat(lines))>>
       \/ \E lines \in SeqsUpTo(Lines, MaxLines - 1), tail \in BadTails :
             folder = <<File(Concat(lines) \o tail)>>
       \/ \E b \in Broken \cup LongFiles : folder = <<b>>
    /\ slides = AllSlides
    /\ dir_existed = FALSE
    /\ fault \in {NoFault} \cup Faults(dir_existed)
    /\ Start

NextParse == Configure \/ NextSet \/ Resolve \/ SelectTemplate

SpecParse == InitParse /\ [][NextParse]_vars

(***************************************************************************)
(* get_rois on generated rasters                                           *)
(***************************************************************************)
StripeXs == {0, 64, 100, 226}
StripeWs == {10, 40}
StripeVs == {1, 255}
Heights == {25000, 250000}
Stripes == {Stripe(x, w, v) : x \in StripeXs, w \in StripeWs, v \in StripeVs}

\* Stripes from left to right, apart by a column at least, inside the raster
Layouts ==
    {l \in SeqsUpTo(Stripes, MaxStripes) :
        /\ \A k \in 1..Len(l) : l[k].x + l[k].w <= RasterWidth
        /\ \A k \in 1..(Len(l) - 1) : l[k].x + l[k].w < l[k + 1].x}

InitSeg ==
    /\ input_level \in {<<"0">>, <<"1">>}
    /\ input_template = <<"D">>
    /\ folder = <<File(LineD)>>
    /\ \E l \in Layouts, h \in Heights, n \in {1, 2} :
          slides = [p \in {PathD} |-> Slide(n, RasterWidth, h, l)]
    /\ dir_existed = FALSE
    /\ fault = NoFault
    /\ Start

NextSeg ==
    \/ Configure \/ NextSet \/ Resolve \/ SelectTemplate
    \/ GetRoisDecode \/ ConvertRegion \/ ReturnRaster \/ BindLocal
    \/ GetRoisSegment

SpecSeg == InitSeg /\ [][NextSeg]_vars

(***************************************************************************)
(* Properties                                                              *)
(***************************************************************************)
Area(box) == box[3] * box[4]
AliveRasters == Len(region) + Len(fresh) + Len(local_tiff) + Len(tiff_image)
InChannelLoop ==
    pc \in {"next_channel", "decode", "convert", "return", "bind", "crop", "save"}
AcceptedLevel == IsInt(input_level) /\ IntOf(input_level) \in {<<"0">>, <<"1">>}
SavedOf(set, channel) ==
    {k \in 1..Len(saved) : saved[k].set = set /\ saved[k].channel = channel}

\* C1: the rois of a slide set are computed from the raster of its template
\* channel, wherever that channel stands in the channel list.
C1_RoisFromTemplate ==
    (pc = "rois_segment" \/ InChannelLoop) => roi_source = CROPPING_TEMPLATE_CHANNEL

\* C2: a level other than 0 and 1 ends the run with an error before anything
\* is touched: no output directory is made, no index file read, no channel
\* decoded, no crop written.
C2_InvalidLevelAborts ==
    ~AcceptedLevel =>
        /\ ~dir_created /\ index_reads = {} /\ decodes = <<>> /\ saved = <<>>
        /\ pc \in {"configure", "error"}

\* C3: get_ndpi_filenames returns, in file order, one entry for every line
\* that ends with .ndpi once its newline is stripped - what follows the
\* first "=" of the line, the line itself when it holds none - and raises
\* no error.
AfterFirstEq(line) == SubSeq(line, FirstPos(line, "=") + 1, Len(line))
RECURSIVE ClaimedChannels(_)
ClaimedChannels(lines) ==
    IF lines = <<>> THEN <<>>
    ELSE (IF EndsWith(RStripNL(Head(lines)), NDPI)
          THEN <<AfterFirstEq(RStripNL(Head(lines)))>> ELSE <<>>)
            \o ClaimedChannels(Tail(lines))
IndexFileRead ==
    /\ index_reads # {}
    /\ OpenError(folder[set_idx]) = ""
    /\ DetectPos(folder[set_idx].content) = 0
C3_ChannelsAsClaimed ==
    IndexFileRead =>
        /\ error # "IndexError@58"
        /\ ndpi_files = ClaimedChannels(FileLines(folder[set_idx].content))

\* C4: the template channel is the first channel path that contains the
\* template name; when no path of the set contains it, the lookup raises
\* and no channel of the set is decoded and no crop of the set is written.
SetResolved ==
    /\ set_idx >= 1
    /\ pc \notin {"configure", "next_set", "resolve"}
    /\ error \notin {"IndexError@58", "UnicodeDecodeError@55",
                     "IsADirectoryError@54", "FileNotFoundError@54",
                     "PermissionError@54", "OSError@54"}
NoChannelMatches ==
    \A k \in 1..Len(ndpi_files) : ~Contains(input_template, ndpi_files[k])
C4_TemplateSelection ==
    (SetResolved /\ pc # "select") =>
        IF NoChannelMatches
        THEN /\ error = "IndexError@118"
             /\ \A k \in 1..Len(decodes) : decodes[k].set # set_idx
             /\ \A k \in 1..Len(saved) : saved[k].set # set_idx
        ELSE \E k \in 1..Len(ndpi_files) :
                /\ CROPPING_TEMPLATE_CHANNEL = ndpi_files[k]
                /\ Contains(input_template, ndpi_files[k])
                /\ \A j \in 1..(k - 1) : ~Contains(input_template, ndpi_files[j])
\* The lookup fails for the second slide set of a run, after the first was
\* cropped.
C4_Witness ==
    /\ error = "IndexError@118" /\ set_idx = 2 /\ saved # <<>>
    /\ \A k \in 1..Len(saved) : saved[k].set = 1

\* C5: get_rois keeps exactly the boxes whose area is strictly greater than
\* the threshold, in the order of the contours.
KeptContours == {k \in 1..Len(contours) : Area(contours[k]) > THRESHOLD_SIZE[1]}
C5_StrictFilterInOrder ==
    (pc = "next_channel" /\ contours # <<>>) =>
        /\ Len(rois) = Cardinality(KeptContours)
        /\ \A i \in 1..Len(rois) :
              \E k \in KeptContours :
                 /\ Cardinality({j \in KeptContours : j < k}) = i - 1
                 /\ rois[i] = contours[k]
\* Of two contours, the one whose area equals the threshold is dropped.
C5_Witness ==
    /\ pc = "next_channel" /\ Len(contours) = 2 /\ Len(rois) = 1
    /\ \E k \in 1..2 : Area(contours[k]) = THRESHOLD_SIZE[1]

\* C6: in a run that completes, every channel path the resolver returned for
\* a slide set gets exactly len(rois) crops, the crop of box i saved as
\* <basename without extension>_roi_0<i>.tif in tif_files (stated for the
\* last slide set of the run).
C6_CropsPerChannel ==
    (pc = "done" /\ set_idx >= 1) =>
        \A c \in 1..Len(ndpi_files) :
            /\ Cardinality(SavedOf(set_idx, c)) = Len(rois)
            /\ \A i \in 0..(Len(rois) - 1) :
                  \E k \in SavedOf(set_idx, c) :
                     /\ saved[k].i = i /\ saved[k].box = rois[i + 1]
                     /\ saved[k].dest =
                          output_dir \o <<"/">>
                            \o SplitextRoot(Basename(ndpi_files[c]))
                            \o ROI_TAG \o Str(i) \o TIF

\* C7: for a raster of K disjoint blobs whose bounding boxes each exceed the
\* threshold, get_rois returns K boxes, each the tight bounding rectangle of
\* one blob.
Blobs == slides[roi_source].stripes
TightBox(blob) == <<blob.x, 0, blob.w, slides[roi_source].height>>
C7_TightBoxes ==
    (/\ pc = "next_channel"
     /\ \A b \in 1..Len(Blobs) : Area(TightBox(Blobs[b])) > THRESHOLD_SIZE[1]) =>
        /\ Len(rois) = Len(Blobs)
        /\ {rois[i] : i \in 1..Len(rois)} = {TightBox(Blobs[b]) : b \in 1..Len(Blobs)}

\* C8: no two crops of a run are written to the same file.
C8_DistinctFiles ==
    \A j, k \in 1..Len(saved) : j # k => saved[j].dest # saved[k].dest

\* C9: at most one decoded raster is alive at any point of a run: a raster
\* is released before the next one is decoded.
C9_OneRasterAlive == AliveRasters <= 1

\* C10: when a run has ended, by completing or by an error, there is one
\* progress line per crop written, each naming the file of its crop and the
\* roi of that file's suffix.
C10_LinePerCrop ==
    pc \in {"done", "error"} =>
        /\ Len(printed) = Len(saved)
        /\ \A k \in 1..Len(saved) :
              /\ printed[k].dest = saved[k].dest
              /\ printed[k].ordinal = saved[k].i + 1

====
